---- MODULE Spec2Model ----
(***************************************************************************)
(* The crawl-and-verify pipeline of URLshutoku (app/services/pipeline.py,  *)
(* app/db.py, app/main.py, app/crawler/*.py, app/services/llm.py) as a     *)
(* state machine.                                                          *)
(*                                                                         *)
(* Scheduling follows asyncio: one coroutine runs at a time (variable      *)
(* running) and gives the event loop back only where it really suspends:   *)
(* a semaphore that has no permit, the search request, a page fetch, and   *)
(* run()'s gather.  Every other statement of a coroutine is a step of its  *)
(* own, labelled by the source line it starts at (pc "L98" is              *)
(* pipeline.py:98).                                                        *)
(***************************************************************************)
EXTENDS Integers, Sequences, FiniteSets, TLC

\* ------------------------------------------------------------- bounds
NumCompanies == 2
MaxChunk == 2
MaxConcurrency == 2
MaxLimit == 1
MaxCandidates == 2
MaxLinks == 3
search_result_limit == 2
MaxJobs == 2
MaxValidate == 2
MaxProcessed == 2
\* the signals analyze_page counts: postal code, phone number, corporate
\* keyword (extract.py:69-77)
MaxSignals == 3

VARIABLES
    store,          \* the companies table: id -> row (db.py:31-45)
    store0,         \* history: the table when the run started
    state,          \* the JobState of the job (pipeline.py:33-42)
    runpc,          \* position of CrawlPipeline.run
    offset,         \* run(): offset            (pipeline.py:53)
    fetched,        \* run(): fetched           (pipeline.py:54)
    scheduled,      \* run(): scheduled         (pipeline.py:56)
    pending,        \* run(): pending, as the set of task ids (pipeline.py:64)
    companies_batch,\* run(): the page just read (pipeline.py:67)
    tasks,          \* the _run_company tasks: id -> position and locals
    permits,        \* value of the job's asyncio.Semaphore (pipeline.py:55)
    lock,           \* holder of CrawlPipeline._state_lock (pipeline.py:50)
    running,        \* the coroutine the event loop is executing
    llm,            \* LLMVerifier.enabled and whether _llm is loaded
    search_engine,  \* settings.search_engine (config.py:19-22)
    call,           \* a function applied on its own: name, arguments, result
    jobs,           \* JobManager.jobs: job id -> JobState (pipeline.py:194)
    created         \* history: the JobStates handed to JobManager.create_job

vars == <<store, store0, state, runpc, offset, fetched, scheduled, pending,
          companies_batch, tasks, permits, lock, running, llm, search_engine, call, jobs, created>>

\* ------------------------------------------------------------- values
NULL == "NULL"                    \* SQL NULL / Python None of a string column
None == <<>>                      \* Python None of an Optional value
Some(x) == <<x>>
IsNone(o) == o = <<>>
Val(o) == o[1]

Min(a, b) == IF a <= b THEN a ELSE b
Max(a, b) == IF a >= b THEN a ELSE b

Companies == 1..NumCompanies
MaxTasks == NumCompanies
TaskIds == 1..MaxTasks

Url(k) == "u" \o ToString(k)
Urls == {Url(k) : k \in 1..MaxCandidates}
OldUrl == "old"                   \* a homepage already stored before the run

Idle == <<"idle", 0>>
RunCo == <<"run", 0>>
TaskCo(t) == <<"task", t>>
Free == <<"free", 0>>

Name(c) == "c" \o ToString(c)

\* company.get("homepage_url") as a Python truth value (pipeline.py:98)
Truthy(s) == s # NULL /\ s # ""

\* ---------------------------------------------------------- the store
\* or_(homepage_url.is_(None), homepage_url == "")   (db.py:131, db.py:142)
Missing(row) == row.homepage_url = NULL \/ row.homepage_url = ""

RECURSIVE SortById(_)
SortById(S) ==
    IF S = {} THEN <<>>
    ELSE LET m == CHOOSE x \in S : \A y \in S : x <= y
         IN <<m>> \o SortById(S \ {m})

\* The row as the dict fetch_companies hands out (db.py:152-163): the
\* address is replaced by the composed components when any is non-empty;
\* the table has no city_name / street_number column, so the composition
\* is the prefecture name alone.
CompanyDict(st, c) ==
    LET row == st[c]
        composed == IF row.prefecture_name = NULL THEN "" ELSE row.prefecture_name
    IN [id |-> c,
        homepage_url |-> row.homepage_url,
        address |-> IF composed # "" THEN composed ELSE row.address]

fetch_companies(st, prefecture, limit, skip_existing, off) ==
    LET sel == {c \in Companies :
                   /\ ~st[c].skip
                   /\ skip_existing => Missing(st[c])
                   /\ Truthy(prefecture) => st[c].prefecture_name = prefecture}
        ordered == SortById({c \in sel : Missing(st[c])})
                   \o SortById({c \in sel : ~Missing(st[c])})
        last == Min(Len(ordered), off + limit)
        ids == IF off >= Len(ordered) THEN <<>> ELSE SubSeq(ordered, off + 1, last)
    IN [k \in 1..Len(ids) |-> CompanyDict(st, ids[k])]

update_company(st, company_id, homepage_url, capital, industry, status) ==
    [st EXCEPT ![company_id] =
        [@ EXCEPT !.homepage_url = homepage_url,
                  !.capital = capital,
                  !.industry = industry,
                  !.last_status = status,
                  !.last_checked_at = "now"]]

\* ------------------------------------------------------------ the job
JobConfig(prefecture, limit, chunk_size, concurrency, skip_existing) ==
    [prefecture |-> prefecture, limit |-> limit, chunk_size |-> chunk_size,
     concurrency |-> concurrency, skip_existing |-> skip_existing]

JobState(config) ==
    [config |-> config, total |-> 0, processed |-> 0, successes |-> 0,
     failures |-> 0, skipped |-> 0, log |-> <<>>]

\* The job trigger (main.py:61-83): chunk_size and concurrency are clamped
\* to at least 1, an empty region becomes None, limit is taken as given.
create_job(prefecture, limit, chunk_size, concurrency, skip_existing) ==
    JobState(JobConfig(IF Truthy(prefecture) THEN prefecture ELSE NULL,
                       limit,
                       Max(1, chunk_size),
                       Max(1, concurrency),
                       skip_existing))

\* JobLog.add (pipeline.py:28-30)
LogAdd(st, kind, ref) == [st EXCEPT !.log = Append(@, [kind |-> kind, ref |-> ref])]

HasLimit == ~IsNone(state.config.limit)
Limit == Val(state.config.limit)

\* --------------------------------------------------- pages and verdicts
\* A fetched page, by what the extractor reads off it: the partial-ratio
\* scores of name and address, the corporate-signal count, the fields.
PageStrong == [name_score |-> 81, address_score |-> 76, signals |-> 2,
               capital |-> "cap", industry |-> NULL]
PageThin   == [name_score |-> 81, address_score |-> 76, signals |-> 1,
               capital |-> "cap", industry |-> NULL]
PageOther  == [name_score |-> 80, address_score |-> 76, signals |-> 0,
               capital |-> "cap", industry |-> "ind"]
Soups == {PageStrong, PageThin, PageOther}

\* The last candidate URL stands for a page on a news host.
news_like(url) == url = Url(MaxCandidates)

\* A Python exception as the outcome of a call, next to Some(value).
TypeError == "TypeError"
Raise(e) == <<"raise", e>>
HasValue(o) == Len(o) = 1

\* normalize_text (normalize.py:56-61) on the addresses of the model: white
\* space is collapsed and stripped, letters are lowered; None is refused by
\* unicodedata.normalize (normalize.py:57), whose TypeError nothing catches.
normalize_text(value) ==
    CASE value = NULL -> TypeError
      [] value = " " -> ""
      [] value = " ADDR" -> "addr"
      [] OTHER -> value

\* _match_company_text with thresholds that let the boundary scores pass.
match_company_text_Inclusive(soup, address) ==
    IF normalize_text(address) = ""
    THEN soup.name_score >= 80
    ELSE soup.name_score >= 80 /\ soup.address_score >= 75

\* _match_company_text (extract.py:48-55)
match_company_text(soup, address) ==
    LET addr_norm == normalize_text(address)
    IN IF addr_norm = ""
       THEN soup.name_score > 80
       ELSE soup.name_score > 80 /\ soup.address_score > 75

\* analyze_page without the override for news-like pages.
analyze_page_NoNewsOverride(soup, url, address) ==
    LET matched == match_company_text(soup, address)
    IN [matched |-> matched,
        homepage_url |-> IF matched THEN url ELSE NULL,
        capital |-> soup.capital,
        industry |-> soup.industry]

\* analyze_page (extract.py:66-92)
analyze_page(soup, url, address) ==
    LET matched == IF news_like(url) /\ soup.signals < 2
                   THEN FALSE
                   ELSE match_company_text(soup, address)
    IN [matched |-> matched,
        homepage_url |-> IF matched THEN url ELSE NULL,
        capital |-> soup.capital,
        industry |-> soup.industry]

\* What the surroundings decide in one LLMVerifier.validate call: whether
\* the model file is there, whether the load succeeds, and what llm.py:78-101
\* makes of the model's response.
LlmEnvs == [path_ok : BOOLEAN, load_ok : BOOLEAN, reply : {"true", "false", "none"}]

\* LLMVerifier._ensure_model (llm.py:34-56)
ensure_model(l, env) ==
    IF ~l.enabled THEN l
    ELSE IF ~env.path_ok THEN [l EXCEPT !.enabled = FALSE]
    ELSE IF l.loaded THEN l
    ELSE IF env.load_ok THEN [l EXCEPT !.loaded = TRUE]
    ELSE [l EXCEPT !.enabled = FALSE]

\* Llama(...) is called (llm.py:43-52)
load_tried(l, env) == l.enabled /\ env.path_ok /\ ~l.loaded

\* LLMVerifier.validate that gives a disabled verifier another try.
validate_Retries(l, env) ==
    LET l2 == ensure_model([l EXCEPT !.enabled = TRUE], env)
    IN IF ~l2.loaded
       THEN [llm |-> l2, result |-> "none", tried |-> env.path_ok /\ ~l.loaded]
       ELSE [llm |-> l2, result |-> env.reply, tried |-> env.path_ok /\ ~l.loaded]

\* LLMVerifier.validate (llm.py:58-101): the verifier afterwards, the
\* reply, "true" | "false" | "none", and whether the model load was tried.
validate(l, env) ==
    IF ~l.enabled THEN [llm |-> l, result |-> "none", tried |-> FALSE]
    ELSE LET l2 == ensure_model(l, env)
         IN IF ~l2.loaded
            THEN [llm |-> l2, result |-> "none", tried |-> load_tried(l, env)]
            ELSE [llm |-> l2, result |-> env.reply, tried |-> load_tried(l, env)]

\* _verify_candidate that asks the verifier about every page, matched or not.
verify_candidate_AsksAlways(l, soup, company, url, env) ==
    LET result == analyze_page(soup, url, company.address)
        v == validate(l, env)
    IN IF l.enabled
       THEN [llm |-> v.llm, asked |-> TRUE, reply |-> v.result,
             result |-> IF result.matched \/ v.result = "true"
                        THEN Some([matched |-> TRUE, homepage_url |-> url,
                                   capital |-> result.capital,
                                   industry |-> result.industry])
                        ELSE None]
       ELSE [llm |-> l, asked |-> FALSE, reply |-> "none",
             result |-> IF result.matched THEN Some(result) ELSE None]

\* CrawlPipeline._verify_candidate (pipeline.py:163-189): the verifier
\* afterwards, the Optional[ExtractionResult], whether LLMVerifier.validate
\* was called and what it returned.
verify_candidate(l, soup, company, url, env) ==
    LET result == analyze_page(soup, url, company.address)
    IN IF result.matched
       THEN [llm |-> l, result |-> Some(result), asked |-> FALSE, reply |-> "none"]
       ELSE IF l.enabled
       THEN LET v == validate(l, env)
            IN IF v.result = "true"
               THEN [llm |-> v.llm, asked |-> TRUE, reply |-> v.result,
                     result |-> Some([matched |-> TRUE, homepage_url |-> url,
                                      capital |-> result.capital,
                                      industry |-> result.industry])]
               ELSE [llm |-> v.llm, asked |-> TRUE, reply |-> v.result,
                     result |-> None]
       ELSE [llm |-> l, result |-> None, asked |-> FALSE, reply |-> "none"]

\* The candidate lists a search can return: search_company sorts what it
\* keeps (search.py:202) and Url(k) stands for the URL of rank k, so a list
\* is a set of URLs in ascending rank, without repetition.
CandidateLists ==
    {LET ranks == SortById(S) IN [k \in 1..Len(ranks) |-> Url(ranks[k])] :
        S \in SUBSET (1..MaxCandidates)}

\* -------------------------------------------------------------- tasks
NoCompany == [id |-> 0, homepage_url |-> NULL, address |-> NULL]

NoTask ==
    [pc |-> "none", company |-> NoCompany, candidate_urls |-> <<>>, i |-> 0,
     soup |-> None, result |-> None,
     \* history of the task
     outcome |-> "none", counted |-> 0, tlines |-> 0, nsearch |-> 0,
     fetches |-> <<>>, verdicts |-> <<>>]

NewTask(company) == [NoTask EXCEPT !.pc = "created", !.company = company]

At(t, l) == running = TaskCo(t) /\ tasks[t].pc = l

\* The suspension points of a company task that are network calls.
InNetworkCall(t) == tasks[t].pc \in {"searching", "fetching"}


\* ----------------------------------------------------------- initial
\* The rows a run can find.  Company 1 spells a missing homepage as the
\* empty string, the others as NULL; company 2 lies in another region and
\* the last company has no region and an empty address.
InitRows(c) ==
    {[skip |-> sk,
      prefecture_name |-> IF c = NumCompanies THEN NULL
                          ELSE IF c = 2 THEN "P2" ELSE "P1",
      address |-> IF c = NumCompanies THEN "" ELSE "addr",
      homepage_url |-> h,
      capital |-> IF h = OldUrl THEN "oldcap" ELSE NULL,
      industry |-> IF h = OldUrl THEN "oldind" ELSE NULL,
      last_status |-> NULL,
      last_checked_at |-> NULL] :
        sk \in (IF c = NumCompanies THEN BOOLEAN ELSE {FALSE}),
        h \in {IF c = 1 THEN "" ELSE NULL, OldUrl}}

InitStores == {st \in [Companies -> UNION {InitRows(c) : c \in Companies}] :
                  \A c \in Companies : st[c] \in InitRows(c)}

\* What the job trigger accepts (main.py:62-69).
LimitInputs == {None} \cup {Some(n) : n \in (0 - 1)..MaxLimit}
JobInputs ==
    {create_job(p, l, ch, co, se) :
        p \in {NULL, "", "P1"}, l \in LimitInputs, ch \in 0..MaxChunk,
        co \in 0..MaxConcurrency, se \in BOOLEAN}

\* LLMVerifier.__init__ (llm.py:24-32)
InitLlm == {[enabled |-> e, loaded |-> FALSE] : e \in BOOLEAN}

\* No function is applied on its own while a job runs.
NoCall == [fn |-> "none"]

\* JobManager.__init__ (pipeline.py:194): the registry is empty.  A run never
\* reads the registry (pipeline.py:52-189), so it stays out of the
\* specifications of a run.
NoJobs == <<>>

InitCommon ==
    /\ call = NoCall
    /\ jobs = NoJobs
    /\ created = <<>>
    /\ store \in InitStores
    /\ store0 = store
    /\ state \in JobInputs
    /\ permits = state.config.concurrency
    /\ lock = Free
    /\ llm \in InitLlm
    /\ offset = 0
    /\ fetched = 0
    /\ scheduled = 0

\* create_job has registered the job and started run (main.py:82-90,
\* pipeline.py:52-64).
Init ==
    /\ InitCommon
    /\ search_engine = "duckduckgo"
    /\ runpc = "L66"
    /\ pending = {}
    /\ companies_batch = <<>>
    /\ tasks = [t \in TaskIds |-> NoTask]
    /\ running = RunCo

\* ---------------------------------------------------- CrawlPipeline.run
RunVars == <<runpc, offset, fetched, scheduled, pending, companies_batch>>

\* pipeline.py:67-78
FetchPage ==
    /\ running = RunCo
    /\ runpc = "L66"
    /\ LET batch == fetch_companies(store, state.config.prefecture,
                                    state.config.chunk_size,
                                    state.config.skip_existing, offset)
       IN /\ companies_batch' = batch
          /\ offset' = offset + state.config.chunk_size
          /\ IF batch = <<>>
             THEN /\ runpc' = "L93"
                  /\ UNCHANGED <<fetched, state>>
             ELSE /\ runpc' = "L80"
                  /\ fetched' = fetched + Len(batch)
                  /\ state' = [state EXCEPT !.total =
                                  IF HasLimit THEN Min(fetched', Limit)
                                              ELSE fetched']
    /\ UNCHANGED <<store, store0, scheduled, pending, tasks, permits, lock,
                   running, llm, search_engine, call, jobs, created>>

\* ScheduleLoop that ignores the limit: every company of the page gets a task.
ScheduleLoop_NoLimit(k, sched) == sched + (Len(companies_batch) - k) + 1

\* The for loop of pipeline.py:80-84: how many companies of the page get a
\* task, starting at the k-th with sched tasks scheduled so far.
RECURSIVE ScheduleLoop(_, _)
ScheduleLoop(k, sched) ==
    IF k > Len(companies_batch) THEN sched
    ELSE IF HasLimit /\ sched >= Limit THEN sched
    ELSE ScheduleLoop(k + 1, sched + 1)

\* pipeline.py:80-84
ScheduleTasks ==
    /\ running = RunCo
    /\ runpc = "L80"
    /\ LET after == ScheduleLoop(1, scheduled)
           new == (scheduled + 1)..after
       IN /\ scheduled' = after
          /\ pending' = pending \cup new
          /\ tasks' = [t \in TaskIds |->
                          IF t \in new THEN NewTask(companies_batch[t - scheduled])
                                       ELSE tasks[t]]
    /\ runpc' = "L86"
    /\ UNCHANGED <<store, store0, state, offset, fetched, companies_batch,
                   permits, lock, running, llm, search_engine, call, jobs, created>>

\* pipeline.py:86-87: gather suspends run until the tasks are through.
AwaitGather ==
    /\ running = RunCo
    /\ runpc = "L86"
    /\ IF pending # {}
       THEN runpc' = "gather" /\ running' = Idle
       ELSE runpc' = "L90" /\ running' = running
    /\ UNCHANGED <<store, store0, state, offset, fetched, scheduled, pending,
                   companies_batch, tasks, permits, lock, llm, search_engine, call, jobs, created>>

\* GatherReturn that resumes run as soon as one task of the page is through.
GatherReturn_Early ==
    /\ running = Idle
    /\ runpc = "gather"
    /\ \E t \in pending : tasks[t].pc = "done"
    /\ pending' = {}
    /\ runpc' = "L90"
    /\ running' = RunCo
    /\ UNCHANGED <<store, store0, state, offset, fetched, scheduled,
                   companies_batch, tasks, permits, lock, llm, search_engine, call, jobs, created>>

\* pipeline.py:87-88: every task of the page has returned.
GatherReturn ==
    /\ running = Idle
    /\ runpc = "gather"
    /\ \A t \in pending : tasks[t].pc = "done"
    /\ pending' = {}
    /\ runpc' = "L90"
    /\ running' = RunCo
    /\ UNCHANGED <<store, store0, state, offset, fetched, scheduled,
                   companies_batch, tasks, permits, lock, llm, search_engine, call, jobs, created>>

\* pipeline.py:90-91
CheckLimit ==
    /\ running = RunCo
    /\ runpc = "L90"
    /\ runpc' = IF HasLimit /\ scheduled >= Limit THEN "L93" ELSE "L66"
    /\ UNCHANGED <<store, store0, state, offset, fetched, scheduled, pending,
                   companies_batch, tasks, permits, lock, running, llm,
                   search_engine, call, jobs, created>>

\* pipeline.py:93
RunAcquireLock ==
    /\ running = RunCo
    /\ runpc = "L93"
    /\ lock = Free
    /\ lock' = RunCo
    /\ runpc' = "L94"
    /\ UNCHANGED <<store, store0, state, offset, fetched, scheduled, pending,
                   companies_batch, tasks, permits, running, llm, search_engine, call, jobs, created>>

\* LogComplete that comes back to the lock and logs again.
LogComplete_Again ==
    /\ running = RunCo
    /\ runpc = "L94"
    /\ lock = RunCo
    /\ state' = LogAdd(state, "complete", "")
    /\ lock' = Free
    /\ runpc' = "L93"
    /\ UNCHANGED <<store, store0, offset, fetched, scheduled, pending,
                   companies_batch, tasks, permits, running, llm, search_engine, call, jobs, created>>

\* pipeline.py:94-95
LogComplete ==
    /\ running = RunCo
    /\ runpc = "L94"
    /\ lock = RunCo
    /\ state' = LogAdd(state, "complete", "")
    /\ lock' = Free
    /\ runpc' = "complete"
    /\ running' = Idle
    /\ UNCHANGED <<store, store0, offset, fetched, scheduled, pending,
                   companies_batch, tasks, permits, llm, search_engine, call, jobs, created>>

RunStep ==
    \/ FetchPage
    \/ ScheduleTasks
    \/ AwaitGather
    \/ GatherReturn
    \/ CheckLimit
    \/ RunAcquireLock
    \/ LogComplete


\* ------------------------------------- _run_company / _process_company
Upd(t, r) == tasks' = [tasks EXCEPT ![t] = r]

\* StartTask without the semaphore: every created task goes straight in.
StartTask_NoPermitCheck(t) ==
    /\ running = Idle
    /\ tasks[t].pc = "created"
    /\ permits' = permits - 1
    /\ Upd(t, [tasks[t] EXCEPT !.pc = "L98"])
    /\ running' = TaskCo(t)
    /\ UNCHANGED <<store, store0, state, RunVars, lock, llm, search_engine, call, jobs, created>>

\* pipeline.py:59, entering "async with semaphore": a permit is taken at
\* once when there is one; otherwise the task waits for a release.
StartTask(t) ==
    /\ running = Idle
    /\ tasks[t].pc = "created"
    /\ IF permits > 0
       THEN /\ permits' = permits - 1
            /\ Upd(t, [tasks[t] EXCEPT !.pc = "L98"])
            /\ running' = TaskCo(t)
       ELSE /\ Upd(t, [tasks[t] EXCEPT !.pc = "sem_wait"])
            /\ UNCHANGED <<permits, running>>
    /\ UNCHANGED <<store, store0, state, RunVars, lock, llm, search_engine, call, jobs, created>>

\* pipeline.py:59: a waiting task is woken with the permit of a release.
SemAcquire(t) ==
    /\ running = Idle
    /\ tasks[t].pc = "sem_wait"
    /\ permits > 0
    /\ permits' = permits - 1
    /\ Upd(t, [tasks[t] EXCEPT !.pc = "L98"])
    /\ running' = TaskCo(t)
    /\ UNCHANGED <<store, store0, state, RunVars, lock, llm, search_engine, call, jobs, created>>

\* CheckSkip that never takes the skip branch.
CheckSkip_Never(t) ==
    /\ At(t, "L98")
    /\ Upd(t, [tasks[t] EXCEPT !.pc = "L107"])
    /\ UNCHANGED <<store, store0, state, RunVars, permits, lock, running, llm,
                   search_engine, call, jobs, created>>

\* pipeline.py:98
CheckSkip(t) ==
    /\ At(t, "L98")
    /\ Upd(t, [tasks[t] EXCEPT !.pc =
                  IF state.config.skip_existing /\ Truthy(tasks[t].company.homepage_url)
                  THEN "L99" ELSE "L107"])
    /\ UNCHANGED <<store, store0, state, RunVars, permits, lock, running, llm,
                   search_engine, call, jobs, created>>

\* Where "async with self._state_lock" is entered, and the first line of
\* its body (pipeline.py:99, 107, 112, 123, 134, 145, 149, 160).
LockBody(l) ==
    CASE l = "L99" -> "L100"
      [] l = "L107" -> "L108"
      [] l = "L112" -> "L113"
      [] l = "L123" -> "L124"
      [] l = "L134" -> "L135"
      [] l = "L145" -> "L146"
      [] l = "L149" -> "L150"
      [] l = "L160" -> "L161"
LockEntries == {"L99", "L107", "L112", "L123", "L134", "L145", "L149", "L160"}

\* asyncio.Lock.acquire: taken without suspending when the lock is free.
AcquireStateLock(t) ==
    /\ running = TaskCo(t)
    /\ tasks[t].pc \in LockEntries
    /\ lock = Free
    /\ lock' = TaskCo(t)
    /\ Upd(t, [tasks[t] EXCEPT !.pc = LockBody(@)])
    /\ UNCHANGED <<store, store0, state, RunVars, permits, running, llm,
                   search_engine, call, jobs, created>>

\* SkipUpdate that forgets processed.
SkipUpdate_NoProcessed(t) ==
    /\ At(t, "L100")
    /\ lock = TaskCo(t)
    /\ state' = LogAdd([state EXCEPT !.skipped = @ + 1],
                       "skip", Name(tasks[t].company.id))
    /\ lock' = Free
    /\ Upd(t, [tasks[t] EXCEPT !.pc = "L61", !.outcome = "skipped",
                               !.tlines = @ + 1])
    /\ UNCHANGED <<store, store0, RunVars, permits, running, llm, search_engine, call, jobs, created>>

\* pipeline.py:100-105
SkipUpdate(t) ==
    /\ At(t, "L100")
    /\ lock = TaskCo(t)
    /\ state' = LogAdd([state EXCEPT !.skipped = @ + 1, !.processed = @ + 1],
                       "skip", Name(tasks[t].company.id))
    /\ lock' = Free
    /\ Upd(t, [tasks[t] EXCEPT !.pc = "L61", !.outcome = "skipped",
                               !.counted = @ + 1, !.tlines = @ + 1])
    /\ UNCHANGED <<store, store0, RunVars, permits, running, llm, search_engine, call, jobs, created>>

\* LogSearchStart that goes on to the search with the lock still held.
LogSearchStart_KeepsLock(t) ==
    /\ At(t, "L108")
    /\ lock = TaskCo(t)
    /\ state' = LogAdd(state, "start", Name(tasks[t].company.id))
    /\ Upd(t, [tasks[t] EXCEPT !.pc = "L109"])
    /\ UNCHANGED <<store, store0, RunVars, permits, lock, running, llm,
                   search_engine, call, jobs, created>>

\* pipeline.py:108
LogSearchStart(t) ==
    /\ At(t, "L108")
    /\ lock = TaskCo(t)
    /\ state' = LogAdd(state, "start", Name(tasks[t].company.id))
    /\ lock' = Free
    /\ Upd(t, [tasks[t] EXCEPT !.pc = "L109"])
    /\ UNCHANGED <<store, store0, RunVars, permits, running, llm, search_engine, call, jobs, created>>

\* pipeline.py:109 with search.py:182-192: the request is sent and the task
\* suspends.
CallSearch(t) ==
    /\ At(t, "L109")
    /\ search_engine = "duckduckgo"
    /\ Upd(t, [tasks[t] EXCEPT !.pc = "searching", !.nsearch = @ + 1])
    /\ running' = Idle
    /\ UNCHANGED <<store, store0, state, RunVars, permits, lock, llm,
                   search_engine, call, jobs, created>>

\* pipeline.py:109: search_company returns its candidates, none when the
\* backend failed (search.py:25-27).
SearchReturn(t) ==
    /\ running = Idle
    /\ tasks[t].pc = "searching"
    /\ \E urls \in CandidateLists :
           Upd(t, [tasks[t] EXCEPT !.pc = "L111", !.candidate_urls = urls])
    /\ running' = TaskCo(t)
    /\ UNCHANGED <<store, store0, state, RunVars, permits, lock, llm,
                   search_engine, call, jobs, created>>

\* pipeline.py:111 and the head of the loop at pipeline.py:127
CheckCandidates(t) ==
    /\ At(t, "L111")
    /\ Upd(t, IF tasks[t].candidate_urls = <<>>
              THEN [tasks[t] EXCEPT !.pc = "L112"]
              ELSE [tasks[t] EXCEPT !.pc = "L127", !.i = 1])
    /\ UNCHANGED <<store, store0, state, RunVars, permits, lock, running, llm,
                   search_engine, call, jobs, created>>

\* pipeline.py:113-114
NoCandidatesCount(t) ==
    /\ At(t, "L113")
    /\ lock = TaskCo(t)
    /\ state' = [state EXCEPT !.failures = @ + 1, !.processed = @ + 1]
    /\ lock' = Free
    /\ Upd(t, [tasks[t] EXCEPT !.pc = "L115", !.counted = @ + 1])
    /\ UNCHANGED <<store, store0, RunVars, permits, running, llm, search_engine, call, jobs, created>>

\* PersistNoCandidates that writes the status of the other failure.
PersistNoCandidates_WrongStatus(t) ==
    /\ At(t, "L115")
    /\ store' = update_company(store, tasks[t].company.id, NULL, NULL, NULL,
                               "no_match")
    /\ Upd(t, [tasks[t] EXCEPT !.pc = "L123"])
    /\ UNCHANGED <<store0, state, RunVars, permits, lock, running, llm,
                   search_engine, call, jobs, created>>

\* PersistNoCandidates that leaves homepage, capital and industry as stored.
PersistNoCandidates_KeepFields(t) ==
    /\ At(t, "L115")
    /\ LET row == store[tasks[t].company.id]
       IN store' = update_company(store, tasks[t].company.id, row.homepage_url,
                                  row.capital, row.industry, "no_candidates")
    /\ Upd(t, [tasks[t] EXCEPT !.pc = "L123"])
    /\ UNCHANGED <<store0, state, RunVars, permits, lock, running, llm,
                   search_engine, call, jobs, created>>

\* pipeline.py:115-122
PersistNoCandidates(t) ==
    /\ At(t, "L115")
    /\ store' = update_company(store, tasks[t].company.id, NULL, NULL, NULL,
                               "no_candidates")
    /\ Upd(t, [tasks[t] EXCEPT !.pc = "L123"])
    /\ UNCHANGED <<store0, state, RunVars, permits, lock, running, llm,
                   search_engine, call, jobs, created>>

\* pipeline.py:124-125
LogNoCandidates(t) ==
    /\ At(t, "L124")
    /\ lock = TaskCo(t)
    /\ state' = LogAdd(state, "no_candidates", "")
    /\ lock' = Free
    /\ Upd(t, [tasks[t] EXCEPT !.pc = "L61", !.outcome = "no_candidates",
                               !.tlines = @ + 1])
    /\ UNCHANGED <<store, store0, RunVars, permits, running, llm, search_engine, call, jobs, created>>

\* pipeline.py:127-128: the next candidate is fetched, or the loop is over.
NextCandidate(t) ==
    /\ At(t, "L127")
    /\ IF tasks[t].i > Len(tasks[t].candidate_urls)
       THEN /\ Upd(t, [tasks[t] EXCEPT !.pc = "L149"])
            /\ running' = running
       ELSE /\ Upd(t, [tasks[t] EXCEPT
                          !.pc = "fetching",
                          !.fetches = Append(@, tasks[t].candidate_urls[tasks[t].i])])
            /\ running' = Idle
    /\ UNCHANGED <<store, store0, state, RunVars, permits, lock, llm,
                   search_engine, call, jobs, created>>

\* pipeline.py:128 with fetch.py:13-23: the parsed page, or none.
FetchReturn(t) ==
    /\ running = Idle
    /\ tasks[t].pc = "fetching"
    /\ \E soup \in {None} \cup {Some(s) : s \in Soups} :
           Upd(t, [tasks[t] EXCEPT !.pc = "L129", !.soup = soup])
    /\ running' = TaskCo(t)
    /\ UNCHANGED <<store, store0, state, RunVars, permits, lock, llm,
                   search_engine, call, jobs, created>>

\* CheckSoup that gives the company up at the first failed fetch.
CheckSoup_GivesUp(t) ==
    /\ At(t, "L129")
    /\ Upd(t, IF IsNone(tasks[t].soup)
              THEN [tasks[t] EXCEPT !.pc = "L149",
                                    !.verdicts = Append(@, "failed")]
              ELSE [tasks[t] EXCEPT !.pc = "L131"])
    /\ UNCHANGED <<store, store0, state, RunVars, permits, lock, running, llm,
                   search_engine, call, jobs, created>>

\* pipeline.py:129-130
CheckSoup(t) ==
    /\ At(t, "L129")
    /\ Upd(t, IF IsNone(tasks[t].soup)
              THEN [tasks[t] EXCEPT !.pc = "L127", !.i = @ + 1,
                                    !.verdicts = Append(@, "failed")]
              ELSE [tasks[t] EXCEPT !.pc = "L131"])
    /\ UNCHANGED <<store, store0, state, RunVars, permits, lock, running, llm,
                   search_engine, call, jobs, created>>

\* pipeline.py:131-133
VerifyCandidate(t) ==
    /\ At(t, "L131")
    /\ \E env \in LlmEnvs :
          LET tk == tasks[t]
              v == verify_candidate(llm, Val(tk.soup), tk.company,
                                    tk.candidate_urls[tk.i], env)
          IN /\ llm' = v.llm
             /\ Upd(t, IF IsNone(v.result)
                       THEN [tk EXCEPT !.pc = "L127", !.i = @ + 1, !.soup = None,
                                       !.verdicts = Append(@, "no_match")]
                       ELSE [tk EXCEPT !.pc = "L134", !.soup = None,
                                       !.result = v.result,
                                       !.verdicts = Append(@, "match")])
    /\ UNCHANGED <<store, store0, state, RunVars, permits, lock, running,
                   search_engine, call, jobs, created>>

\* MatchCount that forgets processed.
MatchCount_NoProcessed(t) ==
    /\ At(t, "L135")
    /\ lock = TaskCo(t)
    /\ state' = [state EXCEPT !.successes = @ + 1]
    /\ lock' = Free
    /\ Upd(t, [tasks[t] EXCEPT !.pc = "L137", !.counted = @ + 1])
    /\ UNCHANGED <<store, store0, RunVars, permits, running, llm, search_engine, call, jobs, created>>

\* pipeline.py:135-136
MatchCount(t) ==
    /\ At(t, "L135")
    /\ lock = TaskCo(t)
    /\ state' = [state EXCEPT !.successes = @ + 1, !.processed = @ + 1]
    /\ lock' = Free
    /\ Upd(t, [tasks[t] EXCEPT !.pc = "L137", !.counted = @ + 1])
    /\ UNCHANGED <<store, store0, RunVars, permits, running, llm, search_engine, call, jobs, created>>

\* pipeline.py:137-144
PersistMatch(t) ==
    /\ At(t, "L137")
    /\ LET r == Val(tasks[t].result)
       IN store' = update_company(store, tasks[t].company.id, r.homepage_url,
                                  r.capital, r.industry, "matched")
    /\ Upd(t, [tasks[t] EXCEPT !.pc = "L145"])
    /\ UNCHANGED <<store0, state, RunVars, permits, lock, running, llm,
                   search_engine, call, jobs, created>>

\* LogMatch without the return: the loop goes on to the next candidate.
LogMatch_NoReturn(t) ==
    /\ At(t, "L146")
    /\ lock = TaskCo(t)
    /\ state' = LogAdd(state, "match", tasks[t].candidate_urls[tasks[t].i])
    /\ lock' = Free
    /\ Upd(t, [tasks[t] EXCEPT !.pc = "L127", !.i = @ + 1, !.tlines = @ + 1])
    /\ UNCHANGED <<store, store0, RunVars, permits, running, llm, search_engine, call, jobs, created>>

\* pipeline.py:146-147
LogMatch(t) ==
    /\ At(t, "L146")
    /\ lock = TaskCo(t)
    /\ state' = LogAdd(state, "match", tasks[t].candidate_urls[tasks[t].i])
    /\ lock' = Free
    /\ Upd(t, [tasks[t] EXCEPT !.pc = "L61", !.outcome = "matched",
                               !.tlines = @ + 1])
    /\ UNCHANGED <<store, store0, RunVars, permits, running, llm, search_engine, call, jobs, created>>

\* NoMatchCount that forgets processed.
NoMatchCount_NoProcessed(t) ==
    /\ At(t, "L150")
    /\ lock = TaskCo(t)
    /\ state' = [state EXCEPT !.failures = @ + 1]
    /\ lock' = Free
    /\ Upd(t, [tasks[t] EXCEPT !.pc = "L152"])
    /\ UNCHANGED <<store, store0, RunVars, permits, running, llm, search_engine, call, jobs, created>>

\* pipeline.py:150-151
NoMatchCount(t) ==
    /\ At(t, "L150")
    /\ lock = TaskCo(t)
    /\ state' = [state EXCEPT !.failures = @ + 1, !.processed = @ + 1]
    /\ lock' = Free
    /\ Upd(t, [tasks[t] EXCEPT !.pc = "L152", !.counted = @ + 1])
    /\ UNCHANGED <<store, store0, RunVars, permits, running, llm, search_engine, call, jobs, created>>

\* PersistNoMatch that leaves homepage, capital and industry as stored.
PersistNoMatch_KeepFields(t) ==
    /\ At(t, "L152")
    /\ LET row == store[tasks[t].company.id]
       IN store' = update_company(store, tasks[t].company.id, row.homepage_url,
                                  row.capital, row.industry, "no_match")
    /\ Upd(t, [tasks[t] EXCEPT !.pc = "L160"])
    /\ UNCHANGED <<store0, state, RunVars, permits, lock, running, llm,
                   search_engine, call, jobs, created>>

\* pipeline.py:152-159
PersistNoMatch(t) ==
    /\ At(t, "L152")
    /\ store' = update_company(store, tasks[t].company.id, NULL, NULL, NULL,
                               "no_match")
    /\ Upd(t, [tasks[t] EXCEPT !.pc = "L160"])
    /\ UNCHANGED <<store0, state, RunVars, permits, lock, running, llm,
                   search_engine, call, jobs, created>>

\* pipeline.py:161
LogNoMatch(t) ==
    /\ At(t, "L161")
    /\ lock = TaskCo(t)
    /\ state' = LogAdd(state, "no_match", "")
    /\ lock' = Free
    /\ Upd(t, [tasks[t] EXCEPT !.pc = "L61", !.outcome = "no_match",
                               !.tlines = @ + 1])
    /\ UNCHANGED <<store, store0, RunVars, permits, running, llm, search_engine, call, jobs, created>>

\* pipeline.py:61-62 and the end of "async with semaphore": on_update is
\* the no-op of main.py:87, the permit goes back, the locals are gone.
TaskExit(t) ==
    /\ At(t, "L61")
    /\ permits' = permits + 1
    /\ Upd(t, [tasks[t] EXCEPT !.pc = "done", !.candidate_urls = <<>>, !.i = 0,
                               !.soup = None, !.result = None,
                               !.fetches = <<>>, !.verdicts = <<>>])
    /\ running' = Idle
    /\ UNCHANGED <<store, store0, state, RunVars, lock, llm, search_engine, call, jobs, created>>

\* The steps of a company task that a run can take.
TaskStep(t) ==
    \/ StartTask(t)
    \/ SemAcquire(t)
    \/ CheckSkip(t)
    \/ AcquireStateLock(t)
    \/ LogSearchStart(t)
    \/ CallSearch(t)
    \/ SearchReturn(t)
    \/ CheckCandidates(t)
    \/ NoCandidatesCount(t)
    \/ PersistNoCandidates(t)
    \/ LogNoCandidates(t)
    \/ NextCandidate(t)
    \/ FetchReturn(t)
    \/ CheckSoup(t)
    \/ VerifyCandidate(t)
    \/ MatchCount(t)
    \/ PersistMatch(t)
    \/ LogMatch(t)
    \/ NoMatchCount(t)
    \/ PersistNoMatch(t)
    \/ LogNoMatch(t)
    \/ TaskExit(t)

Next ==
    \/ RunStep
    \/ \E t \in TaskIds : TaskStep(t)

Spec == Init /\ [][Next]_vars


\* ------------------------------------------- records handed in directly
\* _process_company on the rows as they are, whatever fetch_companies would
\* have selected: one _run_company task per row of the table, all of one
\* page, run() waiting in gather.
InitProcessOn(engines) ==
    /\ call = NoCall
    /\ jobs = NoJobs
    /\ created = <<>>
    /\ store \in InitStores
    /\ store0 = store
    /\ \E co \in 0..MaxConcurrency, se \in BOOLEAN :
           state = [create_job(NULL, None, NumCompanies, co, se)
                       EXCEPT !.total = NumCompanies]
    /\ permits = state.config.concurrency
    /\ lock = Free
    /\ llm \in InitLlm
    /\ search_engine \in engines
    /\ offset = NumCompanies
    /\ fetched = NumCompanies
    /\ scheduled = NumCompanies
    /\ companies_batch = [c \in Companies |-> CompanyDict(store, c)]
    /\ pending = TaskIds
    /\ tasks = [t \in TaskIds |-> NewTask(CompanyDict(store, t))]
    /\ runpc = "gather"
    /\ running = Idle

InitProcess == InitProcessOn({"duckduckgo"})

NextProcess == \E t \in TaskIds : TaskStep(t) \/ SkipUpdate(t)

SpecProcess == InitProcess /\ [][NextProcess]_vars

\* --------------------------------------------------- calls that raise
\* Leaving "async with semaphore" by an exception: the permit goes back and
\* the task is finished, holding the exception (pipeline.py:59-60).
Raised(t) ==
    /\ permits' = permits + 1
    /\ Upd(t, [tasks[t] EXCEPT !.pc = "raised"])
    /\ running' = Idle

\* search.py:191, 205: any other backend than duckduckgo is a ValueError.
SearchRaise(t) ==
    /\ At(t, "L109")
    /\ search_engine # "duckduckgo"
    /\ Raised(t)
    /\ UNCHANGED <<store, store0, state, RunVars, lock, llm, search_engine, call, jobs, created>>

\* db.py:236-237: the store refuses the write; update_company catches
\* nothing, and neither does _process_company (pipeline.py:115, 137, 152).
PersistRaise(t) ==
    /\ running = TaskCo(t)
    /\ tasks[t].pc \in {"L115", "L137", "L152"}
    /\ Raised(t)
    /\ UNCHANGED <<store, store0, state, RunVars, lock, llm, search_engine, call, jobs, created>>

\* pipeline.py:87: gather without return_exceptions hands the first
\* exception of a task to run(), which catches nothing (pipeline.py:52-95,
\* main.py:85-88); the other tasks go on.
GatherRaise ==
    /\ running = Idle
    /\ runpc = "gather"
    /\ \E t \in pending : tasks[t].pc = "raised"
    /\ runpc' = "aborted"
    /\ UNCHANGED <<store, store0, state, offset, fetched, scheduled, pending,
                   companies_batch, tasks, permits, lock, running, llm,
                   search_engine, call, jobs, created>>

InitFault ==
    /\ InitCommon
    /\ search_engine \in {"duckduckgo", "other"}
    /\ runpc = "L66"
    /\ pending = {}
    /\ companies_batch = <<>>
    /\ tasks = [t \in TaskIds |-> NoTask]
    /\ running = RunCo

NextFault ==
    \/ Next
    \/ GatherRaise
    \/ \E t \in TaskIds : SearchRaise(t) \/ PersistRaise(t)

SpecFault == InitFault /\ [][NextFault]_vars

\* Records handed in directly, with the calls that raise.
InitProcessFault == InitProcessOn({"duckduckgo", "other"})

NextProcessFault ==
    \/ NextProcess
    \/ GatherRaise
    \/ \E t \in TaskIds : SearchRaise(t) \/ PersistRaise(t)

SpecProcessFault == InitProcessFault /\ [][NextProcessFault]_vars


\* ------------------------------------------------------------- search
\* A URL as the sequence of its characters.  The first character stands for
\* the host: "a" a company's own .co.jp site, "j" a host under .jp, "m" a
\* host under .com, "c" a host under any other suffix, "n" a host of the
\* blocklist (a .co.jp one, as yahoo.co.jp), "s" a subdomain of "n"; "A" is
\* "a" in upper case; "x" starts a URL that httpx.URL refuses, which
\* duckduckgo_search keeps when it is the target of a redirect link
\* (search.py:47-50).  "d/" stands for a keyword of EXCLUDE_KEYWORDS such as
\* 'detail/', "?" is the keyword '?', "b" is a character of the path.
LowerChar(ch) ==
    CASE ch = "A" -> "a"
      [] ch = "D" -> "d"
      [] OTHER -> ch

\* str.lower (search.py:168, 197)
lower(u) == [k \in 1..Len(u) |-> LowerChar(u[k])]

\* key in lu (search.py:198)
Contains(u, key) ==
    \E k \in 0..(Len(u) - Len(key)) : SubSeq(u, k + 1, k + Len(key)) = key

\* search.py:92-156
EXCLUDE_KEYWORDS == {<<"d", "/">>, <<"?">>}

\* search.py:70-89
BLOCKLIST_HOSTS == {"n"}

\* The links a result page can hold, after the clean-up of search.py:30-52.
Links ==
    {<<>>, <<"a">>, <<"A">>, <<"a", "b">>, <<"a", "d", "/">>, <<"a", "D", "/">>,
     <<"j">>, <<"m">>, <<"c">>, <<"c", "?">>, <<"n">>, <<"s">>,
     <<"x">>, <<"x", "b">>}

RECURSIVE SeqsUpTo(_, _)
SeqsUpTo(S, n) ==
    IF n = 0 THEN {<<>>}
    ELSE LET shorter == SeqsUpTo(S, n - 1)
         IN shorter \cup {Append(q, x) : q \in shorter, x \in S}

Take(q, n) == SubSeq(q, 1, Min(Len(q), n))

\* search.py:55-61
RECURSIVE unique(_)
unique(cleaned) ==
    IF cleaned = <<>> THEN <<>>
    ELSE LET front == unique(SubSeq(cleaned, 1, Len(cleaned) - 1))
             u == cleaned[Len(cleaned)]
         IN IF u # <<>> /\ \A k \in DOMAIN front : front[k] # u
            THEN Append(front, u)
            ELSE front

\* duckduckgo_search that hands on what it collected, empty links dropped.
duckduckgo_search_NoDedupe(hrefs, limit) ==
    LET cleaned == Take(hrefs, limit)
    IN SelectSeq(cleaned, LAMBDA u : u # <<>>)

\* duckduckgo_search (search.py:17-67) from the links of the result page:
\* the first limit links are collected, then deduplicated in order.
duckduckgo_search(hrefs, limit) == unique(Take(hrefs, limit))

\* (u.host or "").lower() (search.py:168)
url_host(url) == IF url = <<>> THEN "" ELSE LowerChar(url[1])

\* httpx.URL(url) raises (search.py:164-167)
Unparseable(url) == url_host(url) = "x"

\* search.py:171-177
tld_penalty(host) ==
    IF host \in {"a", "n", "s"} THEN 0
    ELSE IF host = "j" THEN 1
    ELSE IF host = "m" THEN 2
    ELSE 5

\* host.endswith("." + b) (search.py:178)
SubdomainOf(host, b) == host = "s" /\ b = "n"

\* search.py:178
block_penalty(host) ==
    IF \E b \in BLOCKLIST_HOSTS : host = b \/ SubdomainOf(host, b) THEN 10 ELSE 0

\* _score_url (search.py:159-179)
score_url(url) ==
    IF Unparseable(url) THEN <<100, 100>>
    ELSE <<block_penalty(url_host(url)) + tld_penalty(url_host(url)), Len(url)>>

\* Python's order of the (int, int) keys
KeyLess(x, y) == x[1] < y[1] \/ (x[1] = y[1] /\ x[2] < y[2])

\* list.sort(key=_score_url) (search.py:202): a stable sort
RECURSIVE SortByScore(_)
SortByScore(q) ==
    IF q = <<>> THEN <<>>
    ELSE LET front == SortByScore(SubSeq(q, 1, Len(q) - 1))
             u == q[Len(q)]
             before == SelectSeq(front, LAMBDA v : ~KeyLess(score_url(u), score_url(v)))
             after == SelectSeq(front, LAMBDA v : KeyLess(score_url(u), score_url(v)))
         IN before \o <<u>> \o after

\* search_company that returns what passed the filter as it came.
search_company_Unsorted(hrefs) ==
    LET urls == duckduckgo_search(hrefs, search_result_limit)
    IN SelectSeq(urls, LAMBDA u :
           ~\E key \in EXCLUDE_KEYWORDS : Contains(lower(u), key))

\* search_company that compares the keywords with the URL as spelled.
search_company_CaseSensitive(hrefs) ==
    LET urls == duckduckgo_search(hrefs, search_result_limit)
        filtered == SelectSeq(urls, LAMBDA u :
                        ~\E key \in EXCLUDE_KEYWORDS : Contains(u, key))
    IN SortByScore(filtered)

\* search_company (search.py:191-204) from the links of the result page
search_company(hrefs) ==
    LET urls == duckduckgo_search(hrefs, search_result_limit)
        filtered == SelectSeq(urls, LAMBDA u :
                        ~\E key \in EXCLUDE_KEYWORDS : Contains(lower(u), key))
    IN SortByScore(filtered)

\* ------------------------------------------- functions applied on their own
\* One function of the crawler applied once to arguments drawn from bounded
\* sets: call holds the name and the arguments, then the result as well.
\* No job runs meanwhile.
PageInputs ==
    [name_score : {80, 81}, address_score : {75, 76}, signals : 0..MaxSignals,
     capital : {"cap"}, industry : {NULL}]

\* the address of a company record: empty, blank, not yet normalized, plain
AddressInputs == {"", " ", " ADDR", "addr"}

\* fuzz.partial_ratio of the name and of the address (extract.py:50, 54),
\* around the two thresholds
ScoreInputs == [name_score : {0, 80, 81, 100}, address_score : {0, 75, 76, 100}]

CompanyInputs == {[id |-> 1, homepage_url |-> NULL, address |-> a] : a \in AddressInputs}

\* enabled as __init__ left it or as _ensure_model reset it, the model loaded
\* by an earlier call or not (llm.py:24-56)
LlmStates == [enabled : BOOLEAN, loaded : BOOLEAN]

VerifyCalls ==
    [fn : {"verify_candidate"},
     args : [llm : LlmStates, soup : PageInputs, company : CompanyInputs,
             url : Urls, env : LlmEnvs],
     result : {None}]

SearchCalls ==
    [fn : {"search_company"},
     args : [hrefs : SeqsUpTo(Links, MaxLinks)],
     result : {None}]

\* address: Optional[str] (extract.py:48, 66)
OptionalAddressInputs == AddressInputs \cup {NULL}

MatchCalls ==
    [fn : {"match_company_text"},
     args : [soup : ScoreInputs, address : OptionalAddressInputs],
     result : {None}]

NormalizeCalls ==
    [fn : {"normalize_text"},
     args : [value : OptionalAddressInputs],
     result : {None}]

AnalyzeCalls ==
    [fn : {"analyze_page"},
     args : [soup : PageInputs, url : Urls, address : AddressInputs],
     result : {None}]

\* The text of the model's response (llm.py:83), by what validate reads off
\* it: a JSON object ("object") or anything else ("text"); what it says of
\* match and of official_homepage; for a text, whether the judgments are
\* spelled with the characters \s*:\s* between key and value ("pattern") as
\* the strings of llm.py:93-95 have them, and a further word true or false.
Judgments == {"true", "false", "absent"}

Replies ==
    [kind : {"object"}, match : Judgments, official : Judgments,
     spelled : {"plain"}, extra : {""}]
    \cup
    [kind : {"text"}, match : Judgments, official : Judgments,
     spelled : {"plain", "pattern"}, extra : {"", "true", "false"}]

\* "true" in low, "false" in low (llm.py:97-99)
has_word(r, w) == r.match = w \/ r.official = w \/ r.extra = w

\* llm.py:85-101: json.loads and the two bool(obj.get(...)), or, when that
\* raises, the scan of the lowered text.
parse_reply(r) ==
    IF r.kind = "object"
    THEN IF r.match = "true" /\ r.official = "true" THEN "true" ELSE "false"
    ELSE IF r.spelled = "pattern" /\ r.official = "true" /\ r.match = "true" THEN "true"
    ELSE IF r.spelled = "pattern" /\ (r.official = "false" \/ r.match = "false") THEN "false"
    ELSE IF has_word(r, "true") /\ ~has_word(r, "false") THEN "true"
    ELSE IF has_word(r, "false") THEN "false"
    ELSE "none"

\* One validate call from outside: the model file, the load, the inference
\* (llm.py:78-82) and the text it returns.
ValidateEnvs == [path_ok : BOOLEAN, load_ok : BOOLEAN, infer_ok : BOOLEAN, text : Replies]

\* llm.py:78-101
LlmEnvOf(env) ==
    [path_ok |-> env.path_ok, load_ok |-> env.load_ok,
     reply |-> IF env.infer_ok THEN parse_reply(env.text) ELSE "none"]

ValidateCalls ==
    [fn : {"validate"},
     args : [llm : LlmStates, env : ValidateEnvs],
     n : {1},
     result : {None}]

CallInputs ==
    VerifyCalls \cup SearchCalls \cup MatchCalls \cup AnalyzeCalls \cup NormalizeCalls
        \cup ValidateCalls

InitCalls ==
    /\ call \in CallInputs
    /\ jobs = NoJobs
    /\ created = <<>>
    /\ llm = IF call.fn \in {"verify_candidate", "validate"} THEN call.args.llm
             ELSE [enabled |-> FALSE, loaded |-> FALSE]
    /\ store = [c \in Companies |-> CHOOSE row \in InitRows(c) : ~Missing(row)]
    /\ store0 = store
    /\ state = create_job(NULL, None, MaxChunk, MaxConcurrency, FALSE)
    /\ permits = state.config.concurrency
    /\ lock = Free
    /\ search_engine = "duckduckgo"
    /\ offset = 0
    /\ fetched = 0
    /\ scheduled = 0
    /\ pending = {}
    /\ companies_batch = <<>>
    /\ tasks = [t \in TaskIds |-> NoTask]
    /\ runpc = "none"
    /\ running = Idle

JobVars == <<store, store0, state, RunVars, tasks, permits, lock, running,
             search_engine, jobs, created>>

\* pipeline.py:131 on its own
ApplyVerifyCandidate ==
    /\ call.fn = "verify_candidate"
    /\ IsNone(call.result)
    /\ LET a == call.args
           v == verify_candidate(llm, a.soup, a.company, a.url, a.env)
       IN /\ llm' = v.llm
          /\ call' = [call EXCEPT !.result = Some(v)]
    /\ UNCHANGED JobVars

\* pipeline.py:109 on its own: the deduplicated results of the backend and
\* the candidates made of them.
ApplySearchCompany ==
    /\ call.fn = "search_company"
    /\ IsNone(call.result)
    /\ call' = [call EXCEPT !.result =
                   Some([urls |-> duckduckgo_search(call.args.hrefs, search_result_limit),
                         candidates |-> search_company(call.args.hrefs)])]
    /\ UNCHANGED <<JobVars, llm>>

\* extract.py:84 on its own; the TypeError of normalize_text(address)
\* (extract.py:51) leaves _match_company_text as it came.
ApplyMatchCompanyText ==
    /\ call.fn = "match_company_text"
    /\ IsNone(call.result)
    /\ call' = [call EXCEPT !.result =
                   IF normalize_text(call.args.address) = TypeError
                   THEN Raise(TypeError)
                   ELSE Some(match_company_text(call.args.soup, call.args.address))]
    /\ UNCHANGED <<JobVars, llm>>

\* extract.py:49-51 on its own
ApplyNormalizeText ==
    /\ call.fn = "normalize_text"
    /\ IsNone(call.result)
    /\ call' = [call EXCEPT !.result =
                   LET out == normalize_text(call.args.value)
                   IN IF out = TypeError THEN Raise(TypeError) ELSE Some(out)]
    /\ UNCHANGED <<JobVars, llm>>

\* pipeline.py:166-171 on its own
ApplyAnalyzePage ==
    /\ call.fn = "analyze_page"
    /\ IsNone(call.result)
    /\ call' = [call EXCEPT !.result =
                   Some(analyze_page(call.args.soup, call.args.url, call.args.address))]
    /\ UNCHANGED <<JobVars, llm>>

\* pipeline.py:175-181 on its own
ApplyValidate ==
    /\ call.fn = "validate"
    /\ IsNone(call.result)
    /\ LET v == validate(llm, LlmEnvOf(call.args.env))
       IN /\ llm' = v.llm
          /\ call' = [call EXCEPT !.result = Some([result |-> v.result, tried |-> v.tried])]
    /\ UNCHANGED JobVars

\* The next candidate page is put to the same verifier (pipeline.py:127-131,
\* 175-181).
ValidateAgain ==
    /\ call.fn = "validate"
    /\ ~IsNone(call.result)
    /\ call.n < MaxValidate
    /\ \E env \in ValidateEnvs :
          LET v == validate(llm, LlmEnvOf(env))
          IN /\ llm' = v.llm
             /\ call' = [fn |-> "validate", args |-> [llm |-> llm, env |-> env],
                         n |-> call.n + 1,
                         result |-> Some([result |-> v.result, tried |-> v.tried])]
    /\ UNCHANGED JobVars

NextCalls ==
    \/ ApplyValidate
    \/ ValidateAgain
    \/ ApplyVerifyCandidate
    \/ ApplySearchCompany
    \/ ApplyMatchCompanyText
    \/ ApplyAnalyzePage
    \/ ApplyNormalizeText

SpecCalls == InitCalls /\ [][NextCalls]_vars


\* --------------------------------------------------------- JobManager
\* The jobs of one process: the trigger registers them (main.py:61-83), the
\* detail page looks them up (main.py:98-103), a run changes the counters of
\* its JobState, which is the very object the registry refers to.
JobIds == 1..(MaxJobs + 1)

\* JobState(job_id=job_id, config=config) (main.py:82, pipeline.py:33-42): a
\* new object.  obj is its identity, processed stands for the fields a run
\* changes.
NewJobState(n, job_id) == [obj |-> n, job_id |-> job_id, processed |-> 0]

\* JobManager.create_job that starts the registry afresh with each job.
JobManager_create_job_Evicts(js, st) == [id \in {st.job_id} |-> st]

\* JobManager.create_job (pipeline.py:197-200): self.jobs[state.job_id] = state.
\* The lock of the registry is taken and released within the step: nothing
\* suspends while it is held.
JobManager_create_job(js, st) ==
    [id \in DOMAIN js \cup {st.job_id} |-> IF id = st.job_id THEN st ELSE js[id]]

\* JobManager.get (pipeline.py:202-203)
JobManager_get(js, job_id) == IF job_id \in DOMAIN js THEN Some(js[job_id]) ELSE None

\* state.processed += 1 (pipeline.py:101, 114, 136, 151)
Advance(st) == [st EXCEPT !.processed = @ + 1]

\* JobManager.update (pipeline.py:205-208) with an updater that counts a
\* company: the registered object is changed in place; an unknown id is left
\* alone.
JobManager_update(js, job_id) ==
    IF job_id \in DOMAIN js THEN [js EXCEPT ![job_id] = Advance(@)] ELSE js

CreatedIds == {created[k].job_id : k \in DOMAIN created}

InitJobs ==
    /\ call = NoCall
    /\ jobs = NoJobs
    /\ created = <<>>
    /\ llm = [enabled |-> FALSE, loaded |-> FALSE]
    /\ store = [c \in Companies |-> CHOOSE row \in InitRows(c) : ~Missing(row)]
    /\ store0 = store
    /\ state = create_job(NULL, None, MaxChunk, MaxConcurrency, FALSE)
    /\ permits = state.config.concurrency
    /\ lock = Free
    /\ search_engine = "duckduckgo"
    /\ offset = 0
    /\ fetched = 0
    /\ scheduled = 0
    /\ pending = {}
    /\ companies_batch = <<>>
    /\ tasks = [t \in TaskIds |-> NoTask]
    /\ runpc = "none"
    /\ running = Idle

RunAndStoreVars == <<store, store0, state, RunVars, tasks, permits, lock, running,
                     search_engine, llm>>

\* main.py:70-83: the trigger draws a fresh uuid4, builds the JobState and
\* registers it.
CreateJob ==
    /\ Len(created) < MaxJobs
    /\ \E job_id \in JobIds \ CreatedIds :
          LET st == NewJobState(Len(created) + 1, job_id)
          IN /\ jobs' = JobManager_create_job(jobs, st)
             /\ created' = Append(created, st)
    /\ UNCHANGED <<RunAndStoreVars, call>>

\* main.py:100: the detail page asks for a job, registered or not.
GetJob ==
    /\ \E job_id \in JobIds :
          call' = [fn |-> "get", args |-> [job_id |-> job_id],
                   result |-> JobManager_get(jobs, job_id)]
    /\ UNCHANGED <<RunAndStoreVars, jobs, created>>

\* pipeline.py:205-208
UpdateJob ==
    /\ \E job_id \in JobIds :
          /\ job_id \in DOMAIN jobs => jobs[job_id].processed < MaxProcessed
          /\ jobs' = JobManager_update(jobs, job_id)
    /\ UNCHANGED <<RunAndStoreVars, call, created>>

\* The run of a registered job counts a company (pipeline.py:100-101,
\* 113-114, 135-136, 150-151) on the object the trigger handed to it
\* (main.py:87).
RunCounts ==
    /\ \E job_id \in DOMAIN jobs :
          /\ jobs[job_id].processed < MaxProcessed
          /\ jobs' = [jobs EXCEPT ![job_id] = Advance(@)]
    /\ UNCHANGED <<RunAndStoreVars, call, created>>

NextJobs ==
    \/ CreateJob
    \/ GetJob
    \/ UpdateJob
    \/ RunCounts

SpecJobs == InitJobs /\ [][NextJobs]_vars


\* =============================================================== claims
RECURSIVE SumOver(_, _)
SumOver(f, S) ==
    IF S = {} THEN 0
    ELSE LET x == CHOOSE y \in S : TRUE IN f[x] + SumOver(f, S \ {x})

Statuses == {"skipped", "no_candidates", "no_match", "matched"}
TerminalLines == {k \in DOMAIN state.log :
                     state.log[k].kind \in {"skip", "no_candidates", "no_match", "match"}}
LineOf(outcome) ==
    CASE outcome = "skipped" -> "skip"
      [] outcome = "matched" -> "match"
      [] OTHER -> outcome

\* The task has returned from _process_company (it is at pipeline.py:61).
Returned(t) == tasks[t].pc = "L61"
Ended(t) == tasks[t].pc \in {"L61", "done"}

\* The tasks past the increment of successes / of failures.
CountedSuccess == {t \in TaskIds : tasks[t].pc \in {"L137", "L145", "L146"}
                                    \/ tasks[t].outcome = "matched"}
CountedFailure == {t \in TaskIds :
                      tasks[t].pc \in {"L115", "L123", "L124", "L152", "L160", "L161"}
                      \/ tasks[t].outcome \in {"no_candidates", "no_match"}}

\* C1: when run has completed, processed = successes + failures + skipped.
C1_CountersBalancedAtCompletion ==
    runpc = "complete" =>
        state.processed = state.successes + state.failures + state.skipped

C1_Witness ==
    /\ runpc = "complete"
    /\ state.successes >= 1
    /\ state.failures >= 1

\* C2: in a completed run without limit, every company that was eligible
\* when the run started (not flagged skip, in the region asked for, without
\* homepage when skip_existing is set) has exactly one task that reached a
\* terminal outcome.
Eligible0(c) ==
    /\ ~store0[c].skip
    /\ Truthy(state.config.prefecture) =>
           store0[c].prefecture_name = state.config.prefecture
    /\ state.config.skip_existing => Missing(store0[c])

C2_EachEligibleCompanyOnce ==
    (runpc = "complete" /\ ~HasLimit) =>
        \A c \in Companies :
            Eligible0(c) =>
                Cardinality({t \in TaskIds : /\ tasks[t].company.id = c
                                             /\ tasks[t].pc = "done"}) = 1

\* C3: at most concurrency company tasks are inside a search or a page
\* fetch at any moment.
C3_ConcurrencyBound ==
    Cardinality({t \in TaskIds : InNetworkCall(t)}) <= state.config.concurrency

C3_Witness ==
    /\ Cardinality({t \in TaskIds : InNetworkCall(t)}) = state.config.concurrency
    /\ \E t \in TaskIds : tasks[t].pc = "sem_wait"

\* C4: the candidates are fetched in the order search returned them, no
\* candidate is fetched after one that verified as a match, and that
\* candidate is what is persisted, with status matched, successes counting
\* one per matched company.
C4_FirstMatchWins ==
    /\ \A t \in TaskIds :
          LET tk == tasks[t]
              row == store[tk.company.id]
          IN /\ Len(tk.fetches) <= Len(tk.candidate_urls)
             /\ tk.fetches = SubSeq(tk.candidate_urls, 1, Len(tk.fetches))
             /\ \A j \in DOMAIN tk.verdicts :
                    tk.verdicts[j] = "match" => j = Len(tk.fetches)
             /\ (tk.pc \in {"L145", "L146"} \/ (Returned(t) /\ tk.outcome = "matched")) =>
                    /\ tk.verdicts[Len(tk.fetches)] = "match"
                    /\ row.homepage_url = tk.fetches[Len(tk.fetches)]
                    /\ row.last_status = "matched"
    /\ state.successes = Cardinality(CountedSuccess)

C4_Witness ==
    \E t \in TaskIds :
        /\ Returned(t)
        /\ tasks[t].outcome = "matched"
        /\ Len(tasks[t].fetches) < Len(tasks[t].candidate_urls)

\* C5: a company task that fails with an exception does not abort the run.
C5_FailureDoesNotAbortRun ==
    (\E t \in TaskIds : tasks[t].pc = "raised") => runpc # "aborted"

C7_OneCountOneLinePerTerminal ==
    /\ \A t \in TaskIds :
          /\ tasks[t].counted <= 1
          /\ tasks[t].tlines <= 1
          /\ Ended(t) => tasks[t].counted = 1 /\ tasks[t].tlines = 1
          /\ tasks[t].outcome # "none" <=> tasks[t].tlines = 1
    /\ state.processed = SumOver([t \in TaskIds |-> tasks[t].counted], TaskIds)
    /\ Cardinality(TerminalLines) = SumOver([t \in TaskIds |-> tasks[t].tlines], TaskIds)

C7_Witness ==
    \E t, u \in TaskIds :
        /\ tasks[t].pc = "done" /\ tasks[t].outcome = "skipped"
        /\ tasks[u].pc = "done" /\ tasks[u].outcome = "matched"

\* C8: no counter of the job ever decreases from a state to the next.
C8_CountersNeverDecrease ==
    [][/\ state'.total >= state.total
       /\ state'.processed >= state.processed
       /\ state'.successes >= state.successes
       /\ state'.failures >= state.failures
       /\ state'.skipped >= state.skipped]_vars

\* C9: with skip_existing set, a task handed a record that has a homepage
\* issues no search and no fetch and ends skipped, counted once; skipped is
\* the number of such tasks and processed moves with it.
SkipCase(t) ==
    /\ state.config.skip_existing
    /\ Truthy(tasks[t].company.homepage_url)
    /\ tasks[t].pc \notin {"none", "created", "sem_wait", "L98"}

C9_SkipExistingGoesStraightToSkipped ==
    /\ \A t \in TaskIds :
          SkipCase(t) =>
              /\ tasks[t].pc \in {"L99", "L100", "L61", "done"}
              /\ tasks[t].nsearch = 0
              /\ tasks[t].fetches = <<>>
              /\ Ended(t) => tasks[t].outcome = "skipped" /\ tasks[t].counted = 1
    /\ state.skipped = Cardinality({t \in TaskIds : tasks[t].outcome = "skipped"})
    /\ state.processed = state.skipped + Cardinality(CountedSuccess)
                                       + Cardinality(CountedFailure)

C9_Witness ==
    \E t \in TaskIds :
        /\ SkipCase(t)
        /\ tasks[t].pc = "done"
        /\ state.skipped >= 1

\* C10: after a search that returned nothing the task fetches no page and
\* ends no_candidates, with that status stored and homepage, capital and
\* industry cleared; failures counts one per failed company.
EmptySearch(t) ==
    /\ tasks[t].nsearch = 1
    /\ tasks[t].candidate_urls = <<>>
    /\ tasks[t].pc \in {"L111", "L112", "L113", "L115", "L123", "L124", "L61"}

C10_NoCandidates ==
    /\ \A t \in TaskIds :
          EmptySearch(t) =>
              /\ tasks[t].fetches = <<>>
              /\ tasks[t].pc \in {"L123", "L124", "L61"} =>
                    LET row == store[tasks[t].company.id]
                    IN /\ row.last_status = "no_candidates"
                       /\ row.homepage_url = NULL
                       /\ row.capital = NULL
                       /\ row.industry = NULL
                       /\ tasks[t].counted = 1
              /\ Returned(t) => tasks[t].outcome = "no_candidates"
    /\ state.failures = Cardinality(CountedFailure)

C10_Witness ==
    \E t \in TaskIds :
        /\ EmptySearch(t)
        /\ Returned(t)
        /\ store0[tasks[t].company.id].homepage_url = OldUrl
        /\ state.failures >= 1

\* C11: a task whose candidates are all exhausted without a match (every
\* fetch failed or every verdict was no match) ends no_match, with that
\* status stored and homepage, capital and industry cleared, and has counted
\* failures and processed once however many candidates it tried.
Exhausted(t) ==
    /\ tasks[t].candidate_urls # <<>>
    /\ tasks[t].pc \in {"L149", "L150", "L152", "L160", "L161"}
       \/ (Returned(t) /\ tasks[t].outcome = "no_match")

C11_NoMatch ==
    /\ \A t \in TaskIds :
          LET tk == tasks[t]
              row == store[tk.company.id]
          IN /\ Exhausted(t) =>
                   /\ tk.fetches = tk.candidate_urls
                   /\ Len(tk.verdicts) = Len(tk.candidate_urls)
                   /\ \A j \in DOMAIN tk.verdicts : tk.verdicts[j] \in {"failed", "no_match"}
                   /\ tk.pc \in {"L152", "L160", "L161", "L61"} => tk.counted = 1
                   /\ tk.pc \in {"L160", "L161", "L61"} =>
                          /\ row.last_status = "no_match"
                          /\ row.homepage_url = NULL
                          /\ row.capital = NULL
                          /\ row.industry = NULL
             /\ (Returned(t) /\ tk.outcome = "no_match") => tk.candidate_urls # <<>>
    /\ state.failures = Cardinality(CountedFailure)
    /\ state.processed = Cardinality(CountedFailure) + Cardinality(CountedSuccess)

C11_Witness ==
    \E t \in TaskIds :
        /\ Returned(t)
        /\ tasks[t].outcome = "no_match"
        /\ tasks[t].verdicts = <<"failed", "no_match">>
        /\ store0[tasks[t].company.id].homepage_url = OldUrl

\* C12: a page fetch that returned none changes no counter and writes
\* nothing to the store, and the task goes on to the next candidate; a task
\* whose first candidate failed and whose second matched ends matched with
\* the second URL stored and one success counted.
FailedThenMatched(t) ==
    /\ Returned(t)
    /\ tasks[t].verdicts = <<"failed", "match">>

C12_FailedFetchSkipsCandidate ==
    /\ [](\A t \in TaskIds :
            FailedThenMatched(t) =>
                /\ tasks[t].outcome = "matched"
                /\ store[tasks[t].company.id].homepage_url = tasks[t].candidate_urls[2]
                /\ store[tasks[t].company.id].last_status = "matched"
                /\ tasks[t].counted = 1
                /\ state.successes = Cardinality(CountedSuccess))
    /\ [][\A t \in TaskIds :
            /\ (tasks[t].pc = "fetching" /\ tasks'[t].pc = "L129") =>
                   UNCHANGED <<state, store>>
            /\ (At(t, "L129") /\ IsNone(tasks[t].soup) /\ tasks'[t] # tasks[t]) =>
                   /\ UNCHANGED <<state, store>>
                   /\ tasks'[t].pc = "L127"
                   /\ tasks'[t].i = tasks[t].i + 1
                   /\ tasks'[t].counted = tasks[t].counted]_vars

C12_Witness ==
    \E t \in TaskIds :
        /\ FailedThenMatched(t)
        /\ state.successes = 1
        /\ state.failures = 0

\* C13: whenever run is anywhere but between scheduling a page's tasks and
\* the return of their gather (so whenever it asks the store for a page), no
\* company task is in flight, and the tasks in flight are all tasks of the
\* page read last: tasks of two pages are never in flight together.
InFlight(t) == tasks[t].pc \notin {"none", "done", "raised"}

C13_PagesDoNotOverlap ==
    /\ runpc \in {"L66", "L80", "L90", "L93", "L94", "complete"} =>
           \A t \in TaskIds : ~InFlight(t)
    /\ \A t \in TaskIds : InFlight(t) => t \in pending
    /\ runpc = "L80" => pending = {}

C13_Witness ==
    /\ runpc = "L80"
    /\ scheduled >= 1
    /\ state.processed >= 1
    /\ companies_batch # <<>>

\* C14 as claimed: with a limit L at most L tasks are scheduled and counted,
\* and from the moment L tasks have been scheduled no task is scheduled and no
\* page is fetched any more.
C14_LimitStopsScheduling ==
    /\ [](HasLimit => /\ scheduled <= Max(0, Limit)
                      /\ state.processed <= Max(0, Limit))
    /\ [][(HasLimit /\ scheduled >= Limit) =>
              (scheduled' = scheduled /\ offset' = offset)]_vars

\* C14 as amended: with a limit L at most max(L, 0) tasks are scheduled and
\* counted; once L tasks have been scheduled and a page has been read, no
\* task is scheduled and no page is fetched any more.  The first page is
\* read whatever the limit, so with L <= 0 one page is fetched and no task
\* is scheduled from it.
C14_LimitStopsSchedulingAfterFirstPage ==
    /\ [](HasLimit => /\ scheduled <= Max(0, Limit)
                      /\ state.processed <= Max(0, Limit)
                      /\ Limit <= 0 => offset <= state.config.chunk_size)
    /\ [][(HasLimit /\ scheduled >= Limit /\ offset > 0) =>
              (scheduled' = scheduled /\ offset' = offset)]_vars

C14_Witness ==
    /\ HasLimit
    /\ Limit = MaxLimit
    /\ scheduled = Limit
    /\ Len(companies_batch) > Limit
    /\ runpc = "complete"

\* C15: the job-complete line is in the log at most once, and exactly once
\* when run has completed; it is the last line of the log, every task that
\* was created has finished when it is there, and once it is there the
\* JobState (counters and log) never changes again.
CompleteLines == {k \in DOMAIN state.log : state.log[k].kind = "complete"}

C15_CompleteLineOnceAndLast ==
    /\ [](/\ Cardinality(CompleteLines) <= 1
          /\ runpc = "complete" <=> CompleteLines # {}
          /\ CompleteLines # {} =>
                 /\ state.log[Len(state.log)].kind = "complete"
                 /\ \A t \in TaskIds : tasks[t].pc \in {"none", "done"}
                 /\ pending = {})
    /\ [][CompleteLines # {} => state' = state]_vars

C15_Witness ==
    /\ runpc = "complete"
    /\ CompleteLines = {Len(state.log)}
    /\ state.processed = NumCompanies
    /\ offset > state.config.chunk_size

\* C16: _verify_candidate calls the verifier exactly when the extractor did
\* not match and the verifier is enabled; the candidate is a match iff the
\* extractor matched or the verifier answered true, so after a false or an
\* indeterminate answer the extractor's non-match stands; the verifier's
\* state is untouched when it is not called.
Verified == call.fn = "verify_candidate" /\ ~IsNone(call.result)

C16_VerifierOnlyAfterNonMatch ==
    Verified =>
        LET a == call.args
            out == Val(call.result)
            ext == analyze_page(a.soup, a.url, a.company.address)
        IN /\ out.asked <=> (~ext.matched /\ a.llm.enabled)
           /\ ~IsNone(out.result) <=> (ext.matched \/ (out.asked /\ out.reply = "true"))
           /\ ~IsNone(out.result) => Val(out.result).homepage_url = a.url
           /\ (ext.matched /\ ~IsNone(out.result)) => Val(out.result) = ext
           /\ ~out.asked => llm = a.llm

C16_Witness ==
    /\ Verified
    /\ Val(call.result).asked
    /\ Val(call.result).reply = "true"
    /\ ~analyze_page(call.args.soup, call.args.url, call.args.company.address).matched
    /\ ~IsNone(Val(call.result).result)

\* C17: the candidate list search_company returns holds no URL twice, and
\* the deduplicated results it is made of hold each collected, non-empty URL
\* once, in the order of first appearance.
Searched == call.fn = "search_company" /\ ~IsNone(call.result)

FirstSeen(q, u) == CHOOSE k \in DOMAIN q : q[k] = u /\ \A j \in 1..(k - 1) : q[j] # u

C17_NoUrlTwice ==
    Searched =>
        LET collected == Take(call.args.hrefs, search_result_limit)
            urls == Val(call.result).urls
            candidates == Val(call.result).candidates
        IN /\ \A i, j \in DOMAIN candidates : i # j => candidates[i] # candidates[j]
           /\ \A i, j \in DOMAIN urls : i # j => urls[i] # urls[j]
           /\ \A k \in DOMAIN collected :
                  collected[k] # <<>> => \E i \in DOMAIN urls : urls[i] = collected[k]
           /\ \A i \in DOMAIN urls : \E k \in DOMAIN collected : collected[k] = urls[i]
           /\ \A i, j \in DOMAIN urls :
                  i < j => FirstSeen(collected, urls[i]) < FirstSeen(collected, urls[j])
           /\ \A i \in DOMAIN candidates : \E k \in DOMAIN urls : urls[k] = candidates[i]

C17_Witness ==
    /\ Searched
    /\ Len(call.args.hrefs) >= 2
    /\ call.args.hrefs[1] = call.args.hrefs[2]
    /\ Val(call.result).candidates = <<call.args.hrefs[1]>>

\* C18: no URL search_company returns contains, in lower case, a keyword of
\* the exclusion list.
C18_NoExcludedUrl ==
    Searched =>
        \A i \in DOMAIN Val(call.result).candidates :
            \A key \in EXCLUDE_KEYWORDS :
                ~Contains(lower(Val(call.result).candidates[i]), key)

C18_Witness ==
    /\ Searched
    /\ call.args.hrefs = <<<<"a", "D", "/">>, <<"A">>>>
    /\ Val(call.result).candidates = <<<<"A">>>>

\* C19: _match_company_text answers true iff the name score is above 80
\* and the address is empty once normalized or the address score is above
\* 75; a name score of exactly 80 never matches, and 81 matches with an
\* empty or blank address or with an address score above 75.
MatchedText == call.fn = "match_company_text" /\ HasValue(call.result)

C19_StrictThresholds ==
    MatchedText =>
        LET name_score == call.args.soup.name_score
            address_score == call.args.soup.address_score
            blank == call.args.address \in {"", " "}
            out == Val(call.result)
        IN /\ out <=> (name_score > 80 /\ (blank \/ address_score > 75))
           /\ name_score = 80 => ~out
           /\ (name_score = 81 /\ (blank \/ address_score = 76)) => out
           /\ (name_score = 81 /\ ~blank /\ address_score = 75) => ~out

C19_Witness ==
    /\ MatchedText
    /\ call.args.soup.name_score = 81
    /\ call.args.soup.address_score = 0
    /\ call.args.address = " "
    /\ Val(call.result)

\* C20: analyze_page reports a news-like page with fewer than 2 corporate
\* signals as not matched and without homepage URL whatever its scores;
\* otherwise its verdict is that of the name and address scores, and the
\* homepage URL is the page's URL exactly when it matched.
Analyzed == call.fn = "analyze_page" /\ ~IsNone(call.result)

C20_NewsOverride ==
    Analyzed =>
        LET a == call.args
            out == Val(call.result)
            similar == /\ a.soup.name_score > 80
                       /\ a.address \in {"", " "} \/ a.soup.address_score > 75
        IN /\ (news_like(a.url) /\ a.soup.signals < 2) =>
                  (~out.matched /\ out.homepage_url = NULL)
           /\ (~news_like(a.url) \/ a.soup.signals >= 2) => (out.matched <=> similar)
           /\ out.homepage_url = IF out.matched THEN a.url ELSE NULL
           /\ out.capital = a.soup.capital
           /\ out.industry = a.soup.industry

C20_Witness ==
    /\ Analyzed
    /\ news_like(call.args.url)
    /\ call.args.soup.signals = 1
    /\ call.args.soup.name_score = 81
    /\ call.args.soup.address_score = 76
    /\ ~Val(call.result).matched

\* C21: a job registered with JobManager.create_job is what get returns for
\* its id in every later state, as the same object whatever a run or an
\* update did to its fields; no operation removes or replaces it; get on an
\* id that was never registered returns none.
C21_RegisteredJobsStay ==
    /\ \A k \in DOMAIN created :
          LET found == JobManager_get(jobs, created[k].job_id)
          IN /\ ~IsNone(found)
             /\ Val(found).obj = created[k].obj
             /\ Val(found).job_id = created[k].job_id
    /\ \A job_id \in JobIds \ CreatedIds : IsNone(JobManager_get(jobs, job_id))
    /\ (call.fn = "get" /\ ~IsNone(call.result)) =>
          \E k \in DOMAIN created :
              /\ created[k].job_id = call.args.job_id
              /\ created[k].obj = Val(call.result).obj

C21_Witness ==
    /\ Len(created) = MaxJobs
    /\ call.fn = "get"
    /\ call.args.job_id = created[1].job_id
    /\ ~IsNone(call.result)
    /\ Val(call.result).obj = 1
    /\ jobs[created[1].job_id].processed = MaxProcessed
    /\ jobs[created[2].job_id].processed = 0

\* C22: normalize_text never fails and gives the empty string for an empty
\* and for an absent input; _match_company_text with an absent address does
\* not fail either and decides on the name score alone.
C22_NormalizeIsTotal ==
    /\ (call.fn = "normalize_text" /\ ~IsNone(call.result)) =>
          /\ HasValue(call.result)
          /\ call.args.value \in {NULL, ""} => Val(call.result) = ""
    /\ (call.fn = "match_company_text" /\ ~IsNone(call.result)) =>
          /\ HasValue(call.result)
          /\ call.args.address = NULL =>
                 (Val(call.result) <=> call.args.soup.name_score > 80)

\* C23: a task that has counted its company and not yet appended the
\* terminal line holds the state lock (count and line are one critical
\* section), and whenever the event loop is free to run another coroutine
\* every count has its terminal line.
C23_CountAndLineInOneAcquisition ==
    /\ \A t \in TaskIds :
          (tasks[t].counted = 1 /\ tasks[t].tlines = 0) => lock = TaskCo(t)
    /\ running = Idle => \A t \in TaskIds : tasks[t].counted = tasks[t].tlines

\* C24: the state lock is held only by the coroutine that is running, inside
\* the body of an "async with self._state_lock"; it is free whenever the
\* event loop is free and whenever its last holder waits for the semaphore,
\* a search, a page or gather.  The step taken with the lock held changes
\* counters and log only and gives the lock back: it writes nothing to the
\* store, takes or returns no permit, calls no verifier and starts no search
\* or fetch.
SuspendedPcs == {"created", "sem_wait", "searching", "fetching"}
LockBodies == {LockBody(l) : l \in LockEntries}

C24_LockNeverHeldAcrossSuspension ==
    /\ [](/\ running = Idle => lock = Free
          /\ \A t \in TaskIds :
                /\ tasks[t].pc \in SuspendedPcs => lock # TaskCo(t)
                /\ lock = TaskCo(t) => (running = TaskCo(t) /\ tasks[t].pc \in LockBodies)
          /\ runpc = "gather" => lock # RunCo
          /\ lock = RunCo => (running = RunCo /\ runpc = "L94"))
    /\ [][lock # Free =>
             /\ lock' = Free
             /\ state' # state
             /\ UNCHANGED <<store, permits, llm, offset, fetched, scheduled, pending>>
             /\ \A t \in TaskIds :
                   tasks'[t].pc \in SuspendedPcs => tasks'[t].pc = tasks[t].pc]_vars

C24_Witness ==
    \E t, u \in TaskIds :
        /\ tasks[t].pc \in {"searching", "fetching"}
        /\ lock = TaskCo(u)
        /\ tasks[u].pc \in {"L113", "L135", "L150"}

\* C25: no URL search_company returns has a host that is, or is a subdomain
\* of, an entry of the blocklist: the blocklist penalty of every returned URL
\* is 0.
C25_NoBlocklistedHost ==
    Searched =>
        \A i \in DOMAIN Val(call.result).candidates :
            LET host == url_host(Val(call.result).candidates[i])
            IN /\ \A b \in BLOCKLIST_HOSTS : host # b /\ ~SubdomainOf(host, b)
               /\ block_penalty(host) = 0

\* C26 as claimed: the returned list ascends in the key (penalty, length of
\* the URL), the penalty being the blocklist penalty plus the TLD penalty of
\* the URL's host (0 for .co.jp/.ne.jp/.or.jp, 1 for other .jp, 2 for .com, 5
\* otherwise): each URL's key is at most that of the next one, so shorter
\* URLs come first among equal penalties.
ClaimedKey(url) ==
    <<block_penalty(url_host(url)) + tld_penalty(url_host(url)), Len(url)>>

C26_SortedByPenaltyAndLength ==
    Searched =>
        LET candidates == Val(call.result).candidates
        IN \A i \in 1..(Len(candidates) - 1) :
               ~KeyLess(ClaimedKey(candidates[i + 1]), ClaimedKey(candidates[i]))

\* C26 as amended: the returned list ascends in the key _score_url gives:
\* (blocklist penalty + TLD penalty, length) for a URL that parses, with the
\* TLD penalties as claimed, and (100, 100) for a URL that does not parse,
\* whatever its length.  The sort is stable: URLs with equal keys, so all
\* URLs that do not parse, stay in the order the search gave them.  The
\* list holds exactly the URLs that passed the keyword filter.
C26_SortedByScoreKey ==
    Searched =>
        LET candidates == Val(call.result).candidates
            urls == Val(call.result).urls
            penalty == [h \in {"a", "j", "m", "c", "n", "s"} |->
                           CASE h = "a" -> 0
                             [] h = "j" -> 1
                             [] h = "m" -> 2
                             [] h = "c" -> 5
                             [] h \in {"n", "s"} -> 10]
        IN /\ \A i \in DOMAIN candidates :
                  score_url(candidates[i]) =
                      IF Unparseable(candidates[i]) THEN <<100, 100>>
                      ELSE <<penalty[url_host(candidates[i])], Len(candidates[i])>>
           /\ \A i, j \in DOMAIN candidates :
                  i < j =>
                      /\ ~KeyLess(score_url(candidates[j]), score_url(candidates[i]))
                      /\ score_url(candidates[i]) = score_url(candidates[j]) =>
                             FirstSeen(urls, candidates[i]) < FirstSeen(urls, candidates[j])
           /\ \A k \in DOMAIN urls :
                  (\E i \in DOMAIN candidates : candidates[i] = urls[k])
                      <=> ~\E key \in EXCLUDE_KEYWORDS : Contains(lower(urls[k]), key)

C26_Witness ==
    /\ Searched
    /\ call.args.hrefs = <<<<"c">>, <<"a", "b">>>>
    /\ Val(call.result).candidates = <<<<"a", "b">>, <<"c">>>>

\* C27: when the model has answered, validate returns true only if the
\* reply states both judgments, match and official homepage, as true; it
\* returns false if either is stated as false; and it returns none if the
\* reply leaves a judgment out and states none as false, whether the reply
\* is a JSON object or a text that is scanned for keywords.
Answered ==
    /\ call.fn = "validate"
    /\ HasValue(call.result)
    /\ llm.enabled
    /\ llm.loaded
    /\ call.args.env.infer_ok

C27_BothJudgments ==
    Answered =>
        LET r == call.args.env.text
            out == Val(call.result).result
            negative == r.match = "false" \/ r.official = "false"
        IN /\ out = "true" => (r.match = "true" /\ r.official = "true")
           /\ negative => out = "false"
           /\ ((r.match = "absent" \/ r.official = "absent") /\ ~negative) => out = "none"

\* C28: a verifier that is disabled stays as it is in every later step: it
\* is not enabled again and its model is not loaded; a validate call on a
\* disabled verifier returns none without trying the load; a call that
\* finds the model file missing or fails to load the model leaves the
\* verifier disabled, and returns none unless the model was loaded before.
C28_DisabledForGood ==
    /\ [][~llm.enabled => llm' = llm]_vars
    /\ []((call.fn = "validate" /\ HasValue(call.result)) =>
            LET before == call.args.llm
                env == call.args.env
                out == Val(call.result)
            IN /\ ~before.enabled =>
                      /\ out.result = "none"
                      /\ ~out.tried
                      /\ llm = before
               /\ (before.enabled /\ (~env.path_ok \/ (~before.loaded /\ ~env.load_ok))) =>
                      /\ ~llm.enabled
                      /\ ~before.loaded => out.result = "none")

C28_Witness ==
    /\ call.fn = "validate"
    /\ HasValue(call.result)
    /\ call.n = MaxValidate
    /\ call.args.llm = [enabled |-> FALSE, loaded |-> FALSE]
    /\ call.args.env.path_ok
    /\ call.args.env.load_ok
    /\ call.args.env.infer_ok
    /\ parse_reply(call.args.env.text) = "true"
    /\ Val(call.result).result = "none"
    /\ ~llm.enabled

\* C29: a task holds a permit of the job's semaphore only from just before
\* a search or a page fetch to just after it; it holds none while it counts,
\* logs, reads a page or writes to the store.
HoldsPermit(t) == tasks[t].pc \notin {"none", "created", "sem_wait", "done", "raised"}

C29_PermitOnlyAroundNetworkCall ==
    /\ permits = state.config.concurrency - Cardinality({t \in TaskIds : HoldsPermit(t)})
    /\ \A t \in TaskIds :
          HoldsPermit(t) =>
              tasks[t].pc \in {"L109", "searching", "L111", "L127", "fetching", "L129"}

\* C30: in every state, with tasks in flight or not and whether or not a
\* call has raised, processed = successes + failures + skipped; each of
\* successes, failures and skipped counts the tasks that went through its
\* increment.
C30_CountersBalancedThroughout ==
    /\ state.processed = state.successes + state.failures + state.skipped
    /\ state.processed = SumOver([t \in TaskIds |-> tasks[t].counted], TaskIds)
    /\ state.processed <= NumCompanies

C30_Witness ==
    /\ running = Idle
    /\ state.skipped = 1
    /\ state.processed = 1
    /\ \E t \in TaskIds : tasks[t].pc \in {"searching", "fetching"}

\* C31: when run has completed, processed equals total, the estimate built
\* from the page sizes and capped by limit (pipeline.py:77-78), for every
\* limit and chunk_size the job trigger hands to the run.
C31_ProcessedEqualsTotal ==
    runpc = "complete" => state.processed = state.total

====
